---------------------------- MODULE Spec2Model ----------------------------
(***************************************************************************)
(* Model of the SVG gradient pipeline of src/main.py: get_hex_color,       *)
(* GradientParserAgent.parse_instruction (standard parser),                *)
(* SVGModifierAgent.apply_gradients and IntegrityCheckerAgent.validate_svg.*)
(*                                                                         *)
(* Text is modelled character by character: a Python str is a sequence of  *)
(* one-character strings, and every regular expression of the source is    *)
(* modelled by an operator that computes the match Python's re module      *)
(* computes (leftmost match, greedy quantifiers, non-overlapping scan).    *)
(***************************************************************************)
EXTENDS Integers, Sequences, FiniteSets, TLC

VARIABLES
    pc,                    \* position of the running call
    color_str,             \* get_hex_color: argument
    hex_color,             \* get_hex_color: returned value
    words,                 \* the words the instruction text is made of
    target,                \* identify_target: returned (selector, description)
    configuration,         \* {"steps": [...]} handed from the parser to the modifier
    input_svg,             \* the document apply_gradients was called with
    svg_content,           \* the document being rewritten / validated
    gradient_definitions,  \* apply_gradients: list of synthesized fragments
    gradient_counter,      \* apply_gradients: id counter
    step_index,            \* apply_gradients: number of steps processed
    validation,            \* validate_svg: returned report
    calls                  \* number of calls made in this run

vars == <<pc, color_str, hex_color, words, target, configuration, input_svg,
          svg_content, gradient_definitions, gradient_counter, step_index,
          validation, calls>>

----------------------------------------------------------------------------
(* Bounds of the model.                                                    *)

\* calls of one operation in a run (re-normalisation, repeated apply)
MaxCalls == 2
\* words in one instruction
MaxWords == 3
\* child elements in one document
MaxElems == 2
\* tokens in one document handed to the validator
MaxTokens == 4

----------------------------------------------------------------------------
(* Python str primitives.                                                  *)

\* Python's None where a str is expected: no text is this one-element sequence
None == <<"None">>

UpperLetters ==
    <<"A","B","C","D","E","F","G","H","I","J","K","L","M",
      "N","O","P","Q","R","S","T","U","V","W","X","Y","Z">>
LowerLetters ==
    <<"a","b","c","d","e","f","g","h","i","j","k","l","m",
      "n","o","p","q","r","s","t","u","v","w","x","y","z">>
Digits == <<"0","1","2","3","4","5","6","7","8","9">>

Range(f) == {f[i] : i \in DOMAIN f}

UpperSet == Range(UpperLetters)
LowerSet == Range(LowerLetters)
DigitSet == Range(Digits)

\* str.lower() on one character
LowerChar(c) ==
    IF c \in UpperSet
    THEN LowerLetters[CHOOSE i \in DOMAIN UpperLetters : UpperLetters[i] = c]
    ELSE c

\* str.lower()
Lower(s) == [i \in 1..Len(s) |-> LowerChar(s[i])]

\* str.upper() on one character; used to build inputs only
UpperChar(c) ==
    IF c \in LowerSet
    THEN UpperLetters[CHOOSE i \in DOMAIN LowerLetters : LowerLetters[i] = c]
    ELSE c
Upper(s) == [i \in 1..Len(s) |-> UpperChar(s[i])]
Capitalize(s) == [i \in 1..Len(s) |-> IF i = 1 THEN UpperChar(s[i]) ELSE s[i]]

\* regex class \w (ASCII part)
WordChars == LowerSet \cup UpperSet \cup DigitSet \cup {"_"}
IsWordChar(c) == c \in WordChars
\* regex class \s
SpaceChars == {" ", "\t", "\n", "\r"}
IsSpace(c) == c \in SpaceChars
\* regex class [0-9a-fA-F]
HexDigitChars == DigitSet \cup {"a","b","c","d","e","f","A","B","C","D","E","F"}
IsHexDigit(c) == c \in HexDigitChars

\* lit occurs in s at (1-based) position i
At(s, i, lit) ==
    /\ i >= 1
    /\ i + Len(lit) - 1 <= Len(s)
    /\ \A k \in 1..Len(lit) : s[i + k - 1] = lit[k]

\* the same, ignoring letter case (flag re.I on a literal); lit is lower case
AtNoCase(s, i, lit) ==
    /\ i >= 1
    /\ i + Len(lit) - 1 <= Len(s)
    /\ \A k \in 1..Len(lit) : LowerChar(s[i + k - 1]) = lit[k]

Min(S) == CHOOSE x \in S : \A y \in S : x <= y
Max(S) == CHOOSE x \in S : \A y \in S : x >= y

\* 1-based position of the first occurrence of lit in s at or after from; 0 if none
FindFrom(s, lit, from) ==
    LET hits == {i \in from..Len(s) : At(s, i, lit)}
    IN  IF hits = {} THEN 0 ELSE Min(hits)

\* `lit in s`
Contains(s, lit) == FindFrom(s, lit, 1) # 0

\* str.find(lit, start) with Python's 0-based positions: -1 if absent, and a
\* negative start counts from the end of the string
PyFind(s, lit, start) ==
    LET from0 == IF start < 0 THEN (IF Len(s) + start < 0 THEN 0 ELSE Len(s) + start)
                 ELSE start
    IN  FindFrom(s, lit, from0 + 1) - 1

\* str(n) for a natural number
RECURSIVE IntToStr(_)
IntToStr(n) ==
    IF n < 10 THEN <<Digits[n + 1]>>
    ELSE IntToStr(n \div 10) \o <<Digits[(n % 10) + 1]>>

\* "".join(list)
RECURSIVE Concat(_)
Concat(list) ==
    IF list = <<>> THEN <<>> ELSE Head(list) \o Concat(Tail(list))

\* " ".join(list)
RECURSIVE JoinSpace(_)
JoinSpace(list) ==
    IF list = <<>> THEN <<>>
    ELSE IF Len(list) = 1 THEN Head(list)
    ELSE Head(list) \o <<" ">> \o JoinSpace(Tail(list))

\* all sequences over S of length 0..n
SeqsUpTo(S, n) == UNION {[1..k -> S] : k \in 0..n}

----------------------------------------------------------------------------
(* COLOR_MAP and get_hex_color.                                            *)

COLOR_MAP ==
  <<
    <<<<"r","e","d">>, <<"#","f","f","0","0","0","0">>>>,
    <<<<"g","r","e","e","n">>, <<"#","0","0","f","f","0","0">>>>,
    <<<<"b","l","u","e">>, <<"#","0","0","0","0","f","f">>>>,
    <<<<"w","h","i","t","e">>, <<"#","f","f","f","f","f","f">>>>,
    <<<<"b","l","a","c","k">>, <<"#","0","0","0","0","0","0">>>>,
    <<<<"y","e","l","l","o","w">>, <<"#","f","f","f","f","0","0">>>>,
    <<<<"p","u","r","p","l","e">>, <<"#","8","0","0","0","8","0">>>>,
    <<<<"o","r","a","n","g","e">>, <<"#","f","f","a","5","0","0">>>>,
    <<<<"g","r","a","y">>, <<"#","8","0","8","0","8","0">>>>,
    <<<<"g","r","e","y">>, <<"#","8","0","8","0","8","0">>>>,
    <<<<"c","y","a","n">>, <<"#","0","0","f","f","f","f">>>>,
    <<<<"m","a","g","e","n","t","a">>, <<"#","f","f","0","0","f","f">>>>,
    <<<<"l","i","m","e">>, <<"#","0","0","f","f","0","0">>>>,
    <<<<"m","a","r","o","o","n">>, <<"#","8","0","0","0","0","0">>>>,
    <<<<"n","a","v","y">>, <<"#","0","0","0","0","8","0">>>>,
    <<<<"o","l","i","v","e">>, <<"#","8","0","8","0","0","0">>>>,
    <<<<"t","e","a","l">>, <<"#","0","0","8","0","8","0">>>>,
    <<<<"s","i","l","v","e","r">>, <<"#","c","0","c","0","c","0">>>>,
    <<<<"g","o","l","d">>, <<"#","f","f","d","7","0","0">>>>,
    <<<<"p","i","n","k">>, <<"#","f","f","c","0","c","b">>>>,
    <<<<"b","r","o","w","n">>, <<"#","a","5","2","a","2","a">>>>
  >>

ColorNames == {COLOR_MAP[i][1] : i \in DOMAIN COLOR_MAP}

\* COLOR_MAP[name]
ColorOf(name) == COLOR_MAP[CHOOSE i \in DOMAIN COLOR_MAP : COLOR_MAP[i][1] = name][2]

\* a lookup that forgets to lower-case the key
get_hex_color_case_sensitive(s) ==
    IF s \in ColorNames THEN ColorOf(s) ELSE s

get_hex_color(s) ==
    LET color_lower == Lower(s)
    IN  IF color_lower \in ColorNames THEN ColorOf(color_lower) ELSE s

----------------------------------------------------------------------------
(* Normalising colour tokens: the parser normalises each token it finds    *)
(* (line 172) and the modifier normalises the stop colours again           *)
(* (lines 234-237).                                                        *)

\* tokens that are neither table names nor table values
OtherColorTokens ==
    { <<>>, <<"#","F","F","0","0","0","0">>, <<"#","a","b","c">>, <<"#","A","B","C","D","E","F">>, <<"b","l","u","r","p","l","e">>, <<"R","e","d","d","i","s","h">>,
      <<"r","e","d"," ">>, <<"#","f","f","0","0","0">>, <<"f","f","0","0","0","0">>, <<"d","a","r","k"," ","r","e","d">> }

ColorInputs ==
    ColorNames
    \cup {Upper(n) : n \in ColorNames}
    \cup {Capitalize(n) : n \in ColorNames}
    \cup {ColorOf(n) : n \in ColorNames}
    \cup OtherColorTokens

\* values of the variables a specification does not use
NoTarget == <<None, <<>>>>
NoConfiguration == [steps |-> <<>>]
NoReport == [valid |-> FALSE, errors |-> <<>>]

Idle == /\ target = NoTarget
        /\ configuration = NoConfiguration
        /\ input_svg = <<>>
        /\ svg_content = <<>>
        /\ gradient_definitions = <<>>
        /\ gradient_counter = 0
        /\ step_index = 0
        /\ validation = NoReport

InitColor ==
    /\ pc = "color"
    /\ color_str \in ColorInputs
    /\ hex_color = None
    /\ calls = 0
    /\ words = <<>>
    /\ Idle

\* hex_colors.append(get_hex_color(color_value))
GetHexColor ==
    /\ pc = "color"
    /\ hex_color' = get_hex_color(color_str)
    /\ pc' = "normalized"
    /\ calls' = 1
    /\ UNCHANGED <<color_str, words, target, configuration, input_svg, svg_content,
                   gradient_definitions, gradient_counter, step_index, validation>>

\* the normalised token is normalised again
Renormalize ==
    /\ pc = "normalized"
    /\ calls < MaxCalls
    /\ color_str' = hex_color
    /\ hex_color' = get_hex_color(hex_color)
    /\ calls' = calls + 1
    /\ UNCHANGED <<pc, words, target, configuration, input_svg, svg_content,
                   gradient_definitions, gradient_counter, step_index, validation>>

NextColor == GetHexColor \/ Renormalize

SpecColor == InitColor /\ [][NextColor]_vars

\* two tokens are equal up to letter case
SameIgnoringCase(a, b) ==
    /\ Len(a) = Len(b)
    /\ \A i \in 1..Len(a) : UpperChar(a[i]) = UpperChar(b[i])

\* C9: normalising twice gives what normalising once gives; a table name in any
\* letter case is mapped to its table code, every other token (a hex code, an
\* unknown name) is returned unchanged.
C9_NormalizeIdempotent ==
    /\ get_hex_color(get_hex_color(color_str)) = get_hex_color(color_str)
    /\ pc = "normalized" =>
         /\ \A n \in ColorNames : SameIgnoringCase(color_str, n) => hex_color = ColorOf(n)
         /\ (\A n \in ColorNames : ~SameIgnoringCase(color_str, n)) => hex_color = color_str
         /\ get_hex_color(hex_color) = hex_color

\* a name written in upper case has been mapped to its table code
C9_Witness ==
    /\ pc = "normalized"
    /\ color_str = <<"R","E","D">>
    /\ hex_color = <<"#","f","f","0","0","0","0">>

----------------------------------------------------------------------------
(* GradientParserAgent.parse_instruction, standard parser.                 *)

\* greedy class repetition: the first position at or after p whose character is
\* not in the set chars; Len(s)+1 if none
RunIn(s, p, chars) ==
    IF p > Len(s) THEN Len(s) + 1
    ELSE IF s[p] \notin chars THEN p
    ELSE LET stops == {k \in p..Len(s) : s[k] \notin chars}
         IN  IF stops = {} THEN Len(s) + 1 ELSE Min(stops)

\* greedy negated class repetition: the first position at or after p whose
\* character is in the set chars; Len(s)+1 if none
RunNotIn(s, p, chars) ==
    IF p > Len(s) THEN Len(s) + 1
    ELSE IF s[p] \in chars THEN p
    ELSE LET stops == {k \in p..Len(s) : s[k] \in chars}
         IN  IF stops = {} THEN Len(s) + 1 ELSE Min(stops)

\* regex \b between s[p-1] and s[p]
IsWordAt(s, p) == p >= 1 /\ p <= Len(s) /\ IsWordChar(s[p])
WordBoundary(s, p) == IsWordAt(s, p - 1) # IsWordAt(s, p)

\* r"\s*(?:,|and|then)\s+" with re.I, tried at position p: the position after the
\* match, 0 if it does not match at p
SeparatorEnd(s, p) ==
    LET q == RunIn(s, p, SpaceChars)
        r == IF At(s, q, <<",">>) THEN q + 1
             ELSE IF AtNoCase(s, q, <<"a","n","d">>) THEN q + 3
             ELSE IF AtNoCase(s, q, <<"t","h","e","n">>) THEN q + 4
             ELSE 0
    IN  IF r = 0 THEN 0
        ELSE IF r <= Len(s) /\ IsSpace(s[r]) THEN RunIn(s, r, SpaceChars)
        ELSE 0

\* re.split(r"\s*(?:,|and|then)\s+", instruction, flags=re.I), from position i on
RECURSIVE SplitFrom(_, _)
SplitFrom(s, i) ==
    LET starts == {p \in i..Len(s) : SeparatorEnd(s, p) # 0}
    IN  IF starts = {} THEN <<SubSeq(s, i, Len(s))>>
        ELSE LET p == Min(starts)
             IN  <<SubSeq(s, i, p - 1)>> \o SplitFrom(s, SeparatorEnd(s, p))

SplitCommands(instruction) == SplitFrom(instruction, 1)

\* str.strip()
Strip(s) ==
    LET keep == {k \in 1..Len(s) : ~IsSpace(s[k])}
    IN  IF keep = {} THEN <<>> ELSE SubSeq(s, Min(keep), Max(keep))

\* the grave accent U+0060, which cannot be written in a string literal here
GraveAccent == "U+0060"
\* regex class [`'"]
IsQuote(c) == c \in {GraveAccent, "'", "\""}
\* regex classes \w and [\w-]
NameChars == WordChars
ClassChars == WordChars \cup {"-"}

\* keyword \s* [`'"]? (class+) [`'"]? with re.I, tried at p: the captured group
\* as <<first, last>>, <<0, 0>> if it does not match at p
ReferenceAt(s, p, keyword, name_chars) ==
    IF ~AtNoCase(s, p, keyword) THEN <<0, 0>>
    ELSE LET q == RunIn(s, p + Len(keyword), SpaceChars)
             a == IF q <= Len(s) /\ IsQuote(s[q]) THEN q + 1 ELSE q
         IN  IF a <= Len(s) /\ s[a] \in name_chars
             THEN <<a, RunIn(s, a, name_chars) - 1>>
             ELSE <<0, 0>>

\* re.search of the pattern above: the group of the leftmost match, None if none
ReferenceSearch(s, keyword, name_chars) ==
    LET starts == {p \in 1..Len(s) : ReferenceAt(s, p, keyword, name_chars) # <<0, 0>>}
    IN  IF starts = {} THEN None
        ELSE LET g == ReferenceAt(s, Min(starts), keyword, name_chars)
             IN  SubSeq(s, g[1], g[2])

\* re.search(r'id\s*[`\'"]?(\w+)[`\'"]?', command_text, re.I)
IdSearch(s) == ReferenceSearch(s, <<"i","d">>, NameChars)

\* re.search(r'class\s*[`\'"]?([\w-]+)[`\'"]?', command_text, re.I)
ClassSearch(s) == ReferenceSearch(s, <<"c","l","a","s","s">>, ClassChars)

\* re.search(r'\b<phrase>s?\b', command_text, re.I)
PluralPhraseSearch(s, phrase) ==
    \E p \in 1..Len(s) :
        /\ WordBoundary(s, p)
        /\ AtNoCase(s, p, phrase)
        /\ LET r == p + Len(phrase)
               e == IF AtNoCase(s, r, <<"s">>) THEN r + 1 ELSE r
           IN  WordBoundary(s, e)

\* re.search(r'\b<word>\b', command_text, re.I)
WordSearch(s, word) ==
    \E p \in 1..Len(s) :
        /\ WordBoundary(s, p)
        /\ AtNoCase(s, p, word)
        /\ WordBoundary(s, p + Len(word))

identify_target(command_text) ==
    LET id_match == IdSearch(command_text)
        class_match == ClassSearch(command_text)
    IN  IF id_match # None
        THEN <<<<"#">> \o id_match, <<"e","l","e","m","e","n","t"," ","w","i","t","h"," ","i","d"," ","'">> \o id_match \o <<"'">>>>
        ELSE IF class_match # None
        THEN <<<<".">> \o class_match, <<"e","l","e","m","e","n","t"," ","w","i","t","h"," ","c","l","a","s","s"," ","'">> \o class_match \o <<"'">>>>
        ELSE IF PluralPhraseSearch(command_text, <<"a","l","l"," ","c","i","r","c","l","e">>)
        THEN <<<<"c","i","r","c","l","e">>, <<"a","l","l"," ","c","i","r","c","l","e","s">>>>
        ELSE IF PluralPhraseSearch(command_text, <<"a","l","l"," ","r","e","c","t","a","n","g","l","e">>)
        THEN <<<<"r","e","c","t">>, <<"a","l","l"," ","r","e","c","t","a","n","g","l","e","s">>>>
        ELSE IF WordSearch(command_text, <<"c","i","r","c","l","e">>)
        THEN <<<<"c","i","r","c","l","e">>, <<"c","i","r","c","l","e">>>>
        ELSE IF WordSearch(command_text, <<"r","e","c","t">>) \/ WordSearch(command_text, <<"r","e","c","t","a","n","g","l","e">>)
        THEN <<<<"r","e","c","t">>, <<"r","e","c","t","a","n","g","l","e">>>>
        ELSE <<None, <<"e","l","e","m","e","n","t">>>>

\* color_pattern tried at position p: the position after the match, 0 if none.
\*   #(?:[0-9a-fA-F]{3,6})  |  \b(?:red|green|...|brown)\b      (re.I)
ColorEnd(s, p) ==
    LET run == RunIn(s, p + 1, HexDigitChars) - (p + 1)
        named == {n \in ColorNames :
                     /\ WordBoundary(s, p)
                     /\ AtNoCase(s, p, n)
                     /\ WordBoundary(s, p + Len(n))}
    IN  IF At(s, p, <<"#">>) /\ run >= 3
        THEN p + 1 + (IF run > 6 THEN 6 ELSE run)
        ELSE IF named # {} THEN p + Len(CHOOSE n \in named : TRUE)
        ELSE 0

\* re.findall(color_pattern, cmd, re.I), from position i on
RECURSIVE FindColorsFrom(_, _)
FindColorsFrom(s, i) ==
    LET starts == {p \in i..Len(s) : ColorEnd(s, p) # 0}
    IN  IF starts = {} THEN <<>>
        ELSE LET p == Min(starts)
                 e == ColorEnd(s, p)
             IN  <<SubSeq(s, p, e - 1)>> \o FindColorsFrom(s, e)

\* the loop over color_matches (lines 170-172)
HexColors(color_matches) ==
    [i \in 1..Len(color_matches) |-> get_hex_color(color_matches[i])]

\* lines 178-188 with one stop per colour found instead of the first two
StepOfCommand_all_colors(cmd) ==
    LET found == HexColors(FindColorsFrom(cmd, 1))
        hex_colors == IF Len(found) < 2 THEN <<<<"#","f","f","0","0","0","0">>, <<"#","0","0","0","0","f","f">>>> ELSE found
    IN  [targets  |-> <<[selector |-> <<"r","e","c","t">>, description |-> <<"e","l","e","m","e","n","t">>]>>,
         gradient |-> [type      |-> "linear",
                       direction |-> "horizontal",
                       stops     |-> [i \in 1..Len(hex_colors) |->
                                        [offset |-> IF i = 1 THEN 0 ELSE 100,
                                         color  |-> hex_colors[i]]]]]

\* the body of the loop over commands (lines 151-188) for one non-empty command
StepOfCommand(cmd) ==
    LET t == identify_target(cmd)
        gradient_type == IF Contains(Lower(cmd), <<"r","a","d","i","a","l">>) THEN "radial" ELSE "linear"
        direction == IF Contains(Lower(cmd), <<"v","e","r","t","i","c","a","l">>) THEN "vertical"
                     ELSE IF Contains(Lower(cmd), <<"d","i","a","g","o","n","a","l">>) THEN "diagonal"
                     ELSE "horizontal"
        found == HexColors(FindColorsFrom(cmd, 1))
        hex_colors == IF Len(found) < 2 THEN <<<<"#","f","f","0","0","0","0">>, <<"#","0","0","0","0","f","f">>>> ELSE found
    IN  [targets  |-> <<[selector    |-> IF t[1] # None THEN t[1] ELSE <<"r","e","c","t">>,
                         description |-> t[2]]>>,
         gradient |-> [type      |-> gradient_type,
                       direction |-> direction,
                       stops     |-> <<[offset |-> 0,   color |-> hex_colors[1]],
                                       [offset |-> 100, color |-> hex_colors[2]]>>]]

\* the loop over commands (lines 143-188)
RECURSIVE StepsOfCommands(_)
StepsOfCommands(commands) ==
    IF commands = <<>> THEN <<>>
    ELSE LET cmd == Strip(Head(commands))
         IN  IF cmd = <<>> THEN StepsOfCommands(Tail(commands))
             ELSE <<StepOfCommand(cmd)>> \o StepsOfCommands(Tail(commands))

parse_instruction(instruction) ==
    [steps |-> StepsOfCommands(SplitCommands(instruction))]

----------------------------------------------------------------------------
(* The parser run on instructions made of words.                           *)

\* instruction = input(...): the text of the words, one space between them
InstructionText(ws) == JoinSpace(ws)

ParseVocabulary ==
    { <<"r","e","d">>, <<"B","l","u","e">>, <<"#","1","2","3","4","5","6">>, <<"a","n","d">>, <<",">>, <<"T","h","e","n">>, <<"r","a","d","i","a","l">>, <<"c","i","r","c","l","e">> }

InitParse ==
    /\ pc = "instruction"
    /\ words \in SeqsUpTo(ParseVocabulary, MaxWords)
    /\ color_str = <<>>
    /\ hex_color = None
    /\ calls = 0
    /\ Idle

\* configuration = parser_agent.parse_instruction(instruction)
ParseInstruction ==
    /\ pc = "instruction"
    /\ configuration' = parse_instruction(InstructionText(words))
    /\ pc' = "parsed"
    /\ UNCHANGED <<color_str, hex_color, words, target, input_svg, svg_content,
                   gradient_definitions, gradient_counter, step_index, validation, calls>>

NextParse == ParseInstruction

SpecParse == InitParse /\ [][NextParse]_vars

\* C2: every step the standard parser returns has at least one target and a
\* gradient of exactly two stops, the first at offset 0 and the second at 100.
C2_TwoStopsOneTarget ==
    pc = "parsed" =>
        \A k \in DOMAIN configuration.steps :
            LET step == configuration.steps[k]
            IN  /\ Len(step.targets) >= 1
                /\ Len(step.gradient.stops) = 2
                /\ step.gradient.stops[1].offset = 0
                /\ step.gradient.stops[2].offset = 100

\* an instruction of one command naming three colours has been parsed
C2_Witness ==
    /\ pc = "parsed"
    /\ Len(configuration.steps) = 1
    /\ Len(FindColorsFrom(InstructionText(words), 1)) = 3
    /\ configuration.steps[1].gradient.stops[2].color = <<"#","0","0","0","0","f","f">>

----------------------------------------------------------------------------
(* identify_target run on commands made of words.                          *)

TargetVocabulary ==
    { <<"i","d">>, <<"h","e","r","o">>, <<"'","h","e","r","o","'">>, <<"c","l","a","s","s">>, <<"b","o","x">>, <<"a","l","l">>, <<"c","i","r","c","l","e","s">>,
      <<"c","i","r","c","l","e">>, <<"r","e","c","t","a","n","g","l","e">>, <<"m","i","d","d","l","e">> }

\* the words that are names of an element or of a class, and the name they give
NameWords == { <<"h","e","r","o">>, <<"'","h","e","r","o","'">>, <<"b","o","x">> }
NameOf(w) == IF w = <<"'","h","e","r","o","'">> THEN <<"h","e","r","o">> ELSE w

InitTarget ==
    /\ pc = "command"
    /\ words \in SeqsUpTo(TargetVocabulary, MaxWords)
    /\ color_str = <<>>
    /\ hex_color = None
    /\ calls = 0
    /\ Idle

\* target, target_description = identify_target(cmd)
IdentifyTarget ==
    /\ pc = "command"
    /\ target' = identify_target(InstructionText(words))
    /\ pc' = "identified"
    /\ UNCHANGED <<color_str, hex_color, words, configuration, input_svg, svg_content,
                   gradient_definitions, gradient_counter, step_index, validation, calls>>

NextTarget == IdentifyTarget

SpecTarget == InitTarget /\ [][NextTarget]_vars

\* what a command says, read word by word
HasWord(ws, w) == \E i \in DOMAIN ws : ws[i] = w
\* positions of `keyword <name>`
References(ws, keyword) ==
    {i \in 1..(Len(ws) - 1) : ws[i] = keyword /\ ws[i + 1] \in NameWords}
\* the command refers to a name by the keyword, and uses the keyword for nothing else
HasReference(ws, keyword) ==
    /\ References(ws, keyword) # {}
    /\ \A i \in DOMAIN ws : ws[i] = keyword => i \in References(ws, keyword)
ReferenceName(ws, keyword) == NameOf(ws[Min(References(ws, keyword)) + 1])
HasPhrase(ws, w1, W2) == \E i \in 1..(Len(ws) - 1) : ws[i] = w1 /\ ws[i + 1] \in W2
AllCircles(ws) == HasPhrase(ws, <<"a","l","l">>, {<<"c","i","r","c","l","e">>, <<"c","i","r","c","l","e","s">>})
AllRectangles(ws) == HasPhrase(ws, <<"a","l","l">>, {<<"r","e","c","t","a","n","g","l","e">>})
NoReference(ws) == ~HasWord(ws, <<"i","d">>) /\ ~HasWord(ws, <<"c","l","a","s","s">>)

\* C7: id reference > class reference > "all circles"/"all rectangles" > bare
\* circle/rectangle > unresolved.
C7_TargetPriority ==
    pc = "identified" =>
        /\ HasReference(words, <<"i","d">>) =>
              target[1] = <<"#">> \o ReferenceName(words, <<"i","d">>)
        /\ (~HasWord(words, <<"i","d">>) /\ HasReference(words, <<"c","l","a","s","s">>)) =>
              target[1] = <<".">> \o ReferenceName(words, <<"c","l","a","s","s">>)
        /\ (NoReference(words) /\ AllCircles(words)) => target[1] = <<"c","i","r","c","l","e">>
        /\ (NoReference(words) /\ ~AllCircles(words) /\ AllRectangles(words)) =>
              target[1] = <<"r","e","c","t">>
        /\ (NoReference(words) /\ ~AllCircles(words) /\ ~AllRectangles(words)
              /\ HasWord(words, <<"c","i","r","c","l","e">>)) => target[1] = <<"c","i","r","c","l","e">>
        /\ (NoReference(words) /\ ~AllCircles(words) /\ ~AllRectangles(words)
              /\ ~HasWord(words, <<"c","i","r","c","l","e">>) /\ HasWord(words, <<"r","e","c","t","a","n","g","l","e">>)) =>
              target[1] = <<"r","e","c","t">>

\* the same statement for the commands in which no word merely contains "id"
C7_TargetPriorityPlainWords ==
    ~HasWord(words, <<"m","i","d","d","l","e">>) => C7_TargetPriority

----------------------------------------------------------------------------
(* SVGModifierAgent.apply_gradients: gradient synthesis.                   *)

\* gradient_id = f"grad{gradient_counter}"
GradientId(counter) == <<"g","r","a","d">> \o IntToStr(counter)

\* the opening tag (lines 222-230)
GradientOpen(gradient_id, gradient_info) ==
    IF gradient_info.type = "linear"
    THEN IF gradient_info.direction = "vertical"
         THEN <<"<","l","i","n","e","a","r","G","r","a","d","i","e","n","t"," ","i","d","=","\"">> \o gradient_id \o <<"\""," ","x","1","=","\"","0","%","\""," ","y","1","=","\"","0","%","\""," ","x","2","=","\"","0","%","\""," ","y","2","=","\"","1","0","0","%","\"",">">>
         ELSE IF gradient_info.direction = "diagonal"
         THEN <<"<","l","i","n","e","a","r","G","r","a","d","i","e","n","t"," ","i","d","=","\"">> \o gradient_id \o <<"\""," ","x","1","=","\"","0","%","\""," ","y","1","=","\"","0","%","\""," ","x","2","=","\"","1","0","0","%","\""," ","y","2","=","\"","1","0","0","%","\"",">">>
         ELSE <<"<","l","i","n","e","a","r","G","r","a","d","i","e","n","t"," ","i","d","=","\"">> \o gradient_id \o <<"\""," ","x","1","=","\"","0","%","\""," ","y","1","=","\"","0","%","\""," ","x","2","=","\"","1","0","0","%","\""," ","y","2","=","\"","0","%","\"",">">>
    ELSE <<"<","r","a","d","i","a","l","G","r","a","d","i","e","n","t"," ","i","d","=","\"">> \o gradient_id \o <<"\""," ","c","x","=","\"","5","0","%","\""," ","c","y","=","\"","5","0","%","\""," ","r","=","\"","5","0","%","\""," ","f","x","=","\"","5","0","%","\""," ","f","y","=","\"","5","0","%","\"",">">>

\* the closing tag (line 240)
GradientClose(gradient_info) ==
    IF gradient_info.type = "linear" THEN <<"<","/","l","i","n","e","a","r","G","r","a","d","i","e","n","t",">">> ELSE <<"<","/","r","a","d","i","a","l","G","r","a","d","i","e","n","t",">">>

\* one <stop .../> element (lines 234-238)
StopElement(stop_point) ==
    LET given == stop_point.color
        color_value == IF ~At(given, 1, <<"#">>) /\ Lower(given) \in ColorNames
                       THEN ColorOf(Lower(given))
                       ELSE given
    IN  <<"<","s","t","o","p"," ","o","f","f","s","e","t","=","\"">> \o IntToStr(stop_point.offset) \o <<"%","\""," ","s","t","y","l","e","=","\"","s","t","o","p","-","c","o","l","o","r",":">>
          \o color_value \o <<";","s","t","o","p","-","o","p","a","c","i","t","y",":","1","\""," ","/",">">>

\* the loop over gradient_info["stops"] (lines 233-238)
RECURSIVE StopElements(_)
StopElements(stops) ==
    IF stops = <<>> THEN <<>>
    ELSE StopElement(Head(stops)) \o StopElements(Tail(stops))

\* gradient_def (lines 221-240)
GradientDef(gradient_id, gradient_info) ==
    GradientOpen(gradient_id, gradient_info)
      \o StopElements(gradient_info.stops)
      \o GradientClose(gradient_info)

----------------------------------------------------------------------------
(* SVGModifierAgent.apply_gradients: rewriting the fill of matched tags.   *)
(* A match is reported as <<k, q>>: k is where fill=" starts and q is the   *)
(* closing quote of the value; <<0, 0>> means the pattern does not match.   *)

\* the characters that end [^>]* and [^"]*
GtChar == {">"}
QuoteChar == {"\""}

FillOpen == <<"f","i","l","l","=","\"">>

\* fill="[^"]*" tried at k: the position of the closing quote, 0 if none
FillClose(s, k) ==
    IF ~At(s, k, FillOpen) THEN 0
    ELSE LET q == RunNotIn(s, k + Len(FillOpen), QuoteChar)
         IN  IF q <= Len(s) THEN q ELSE 0

\* [^>]*fill="[^"]*" tried at lo: the positions k at which fill=" can be taken
FillStarts(s, lo) ==
    {k \in lo..RunNotIn(s, lo, GtChar) : FillClose(s, k) # 0}

\* greedy [^>]* gives the last of them
LastFill(s, lo) ==
    LET ks == FillStarts(s, lo)
    IN  IF ks = {} THEN <<0, 0>> ELSE <<Max(ks), FillClose(s, Max(ks))>>

\* '<([^>]*id="ID"[^>]*)fill="[^"]*"' tried at the "<" at position i
IdPatternAt(s, i, element_id) ==
    LET lit == <<"i","d","=","\"">> \o element_id \o <<"\"">>
        js == {j \in (i + 1)..RunNotIn(s, i + 1, GtChar) :
                  At(s, j, lit) /\ FillStarts(s, j + Len(lit)) # {}}
    IN  IF js = {} THEN <<0, 0>> ELSE LastFill(s, Max(js) + Len(lit))

\* '<([^>]*class="[^"]*NAME[^"]*"[^>]*)fill="[^"]*"' tried at the "<" at position i
ClassValueClose(s, m, class_name) ==
    RunNotIn(s, m + Len(class_name), QuoteChar)
ClassNameStarts(s, j, class_name) ==
    LET v == j + Len(<<"c","l","a","s","s","=","\"">>)
    IN  {m \in v..RunNotIn(s, v, QuoteChar) :
            /\ At(s, m, class_name)
            /\ ClassValueClose(s, m, class_name) <= Len(s)
            /\ FillStarts(s, ClassValueClose(s, m, class_name) + 1) # {}}
ClassPatternAt(s, i, class_name) ==
    LET js == {j \in (i + 1)..RunNotIn(s, i + 1, GtChar) :
                  At(s, j, <<"c","l","a","s","s","=","\"">>) /\ ClassNameStarts(s, j, class_name) # {}}
    IN  IF js = {} THEN <<0, 0>>
        ELSE LET m == Max(ClassNameStarts(s, Max(js), class_name))
             IN  LastFill(s, ClassValueClose(s, m, class_name) + 1)

\* '<(TAG[^>]*)fill="[^"]*"' tried at the "<" at position i
TagPatternAt(s, i, tag) ==
    IF At(s, i + 1, tag) THEN LastFill(s, i + 1 + Len(tag)) ELSE <<0, 0>>

\* the pattern chosen by the selector (lines 248-263), tried at position i
PatternAt(s, i, selector) ==
    IF ~At(s, i, <<"<">>) THEN <<0, 0>>
    ELSE IF At(selector, 1, <<"#">>) THEN IdPatternAt(s, i, Tail(selector))
    ELSE IF At(selector, 1, <<".">>) THEN ClassPatternAt(s, i, Tail(selector))
    ELSE TagPatternAt(s, i, selector)

\* svg_content = re.sub(pattern, replacement, svg_content), from position i on
RECURSIVE SubFillFrom(_, _, _, _)
SubFillFrom(s, i, selector, gradient_id) ==
    LET starts == {p \in i..Len(s) : PatternAt(s, p, selector) # <<0, 0>>}
    IN  IF starts = {} THEN SubSeq(s, i, Len(s))
        ELSE LET m == PatternAt(s, Min(starts), selector)
             IN  SubSeq(s, i, m[1] - 1)
                   \o <<"f","i","l","l","=","\"","u","r","l","(","#">> \o gradient_id \o <<")","\"">>
                   \o SubFillFrom(s, m[2] + 1, selector, gradient_id)

\* the body of the loop over step["targets"] (lines 245-263)
ApplyToTarget(s, selector, gradient_id) == SubFillFrom(s, 1, selector, gradient_id)

\* the loop over step["targets"] (lines 244-263)
RECURSIVE ApplyToTargets(_, _, _)
ApplyToTargets(s, targets, gradient_id) ==
    IF targets = <<>> THEN s
    ELSE ApplyToTargets(ApplyToTarget(s, Head(targets).selector, gradient_id),
                        Tail(targets), gradient_id)

----------------------------------------------------------------------------
(* SVGModifierAgent.apply_gradients: placing the definitions block.        *)

DefsOpen == <<"<","d","e","f","s",">">>
DefsClose == <<"<","/","d","e","f","s",">">>

\* definitions_block = "<defs>" + "".join(gradient_definitions) + "</defs>"
DefinitionsBlock(definitions) == DefsOpen \o Concat(definitions) \o DefsClose

\* re.sub(r'<defs>.*?</defs>', definitions_block, svg_content, flags=re.DOTALL),
\* from position i on
RECURSIVE ReplaceDefsFrom(_, _, _)
ReplaceDefsFrom(s, i, block) ==
    LET a == FindFrom(s, DefsOpen, i)
        b == IF a = 0 THEN 0 ELSE FindFrom(s, DefsClose, a + Len(DefsOpen))
    IN  IF b = 0 THEN SubSeq(s, i, Len(s))
        ELSE SubSeq(s, i, a - 1) \o block \o ReplaceDefsFrom(s, b + Len(DefsClose), block)

\* re.sub(r'(<svg[^>]*>)', r'\1' + definitions_block, svg_content, 1)
InsertAfterRoot(s, block) ==
    LET a == FindFrom(s, <<"<","s","v","g">>, 1)
        g == IF a = 0 THEN 0 ELSE RunNotIn(s, a + 4, GtChar)
    IN  IF a = 0 \/ g > Len(s) THEN s
        ELSE SubSeq(s, 1, g) \o block \o SubSeq(s, g + 1, Len(s))

\* the existing block is kept and the new one is put after the root tag
PlaceDefinitions_keep_old(s, definitions) ==
    InsertAfterRoot(s, DefinitionsBlock(definitions))

\* an existing block is replaced, and nothing is inserted where there is none
PlaceDefinitions_replace_only(s, definitions) ==
    ReplaceDefsFrom(s, 1, DefinitionsBlock(definitions))

\* lines 267-274
PlaceDefinitions(s, definitions) ==
    IF Contains(s, DefsOpen)
    THEN ReplaceDefsFrom(s, 1, DefinitionsBlock(definitions))
    ELSE InsertAfterRoot(s, DefinitionsBlock(definitions))

\* the counter advanced once for every target of the step
NextCounter_per_target(counter, step) == counter + Len(step.targets)

\* gradient_counter += 1 (line 265)
NextCounter(counter, step) == counter + 1

----------------------------------------------------------------------------
(* IntegrityCheckerAgent.validate_svg.                                     *)

MissingRoot == <<"D","o","c","u","m","e","n","t"," ","m","i","s","s","i","n","g"," ","v","a","l","i","d"," ","S","V","G"," ","r","o","o","t"," ","e","l","e","m","e","n","t">>
DefsMalformed == <<"D","e","f","i","n","i","t","i","o","n"," ","s","e","c","t","i","o","n"," ","i","m","p","r","o","p","e","r","l","y"," ","s","t","r","u","c","t","u","r","e","d">>
DefsBeforeRoot == <<"D","e","f","i","n","i","t","i","o","n"," ","s","e","c","t","i","o","n"," ","m","u","s","t"," ","f","o","l","l","o","w"," ","o","p","e","n","i","n","g"," ","S","V","G"," ","t","a","g">>
LacksDefinition(reference) ==
    <<"G","r","a","d","i","e","n","t"," ","r","e","f","e","r","e","n","c","e"," ","'">> \o reference \o <<"'"," ","l","a","c","k","s"," ","c","o","r","r","e","s","p","o","n","d","i","n","g"," ","d","e","f","i","n","i","t","i","o","n">>

\* re.match(r'^\s*<svg[^>]*>', svg_content)
RootMatch(s) ==
    LET a == RunIn(s, 1, SpaceChars)
    IN  At(s, a, <<"<","s","v","g">>) /\ RunNotIn(s, a + 4, GtChar) <= Len(s)

\* lines 299-300
RootIssues(s) == IF ~RootMatch(s) THEN <<MissingRoot>> ELSE <<>>

\* lines 303-309
DefsIssues(s) ==
    IF Contains(s, DefsOpen)
    THEN LET defs_start == PyFind(s, DefsOpen, 0)
             defs_end == PyFind(s, DefsClose, 0)
         IN  IF defs_end <= defs_start THEN <<DefsMalformed>>
             ELSE IF defs_start < PyFind(s, <<">">>, PyFind(s, <<"<","s","v","g">>, 0))
             THEN <<DefsBeforeRoot>>
             ELSE <<>>
    ELSE <<>>

\* the character that ends [^)]+
ParenChar == {")"}

\* r'url\(#([^)]+)\)' tried at p: the closing parenthesis, 0 if none
UrlEnd(s, p) ==
    IF ~At(s, p, <<"u","r","l","(","#">>) THEN 0
    ELSE LET e == RunNotIn(s, p + 5, ParenChar)
         IN  IF e > p + 5 /\ e <= Len(s) THEN e ELSE 0

\* re.findall(r'url\(#([^)]+)\)', svg_content), from position i on
RECURSIVE FindReferencesFrom(_, _)
FindReferencesFrom(s, i) ==
    LET starts == {p \in i..Len(s) : UrlEnd(s, p) # 0}
    IN  IF starts = {} THEN <<>>
        ELSE LET p == Min(starts)
             IN  <<SubSeq(s, p + 5, UrlEnd(s, p) - 1)>> \o FindReferencesFrom(s, UrlEnd(s, p) + 1)

\* id="([^"]+)" tried at j: the closing quote, 0 if none
IdValueEnd(s, j) ==
    IF ~At(s, j, <<"i","d","=","\"">>) THEN 0
    ELSE LET e == RunNotIn(s, j + 4, QuoteChar)
         IN  IF e > j + 4 /\ e <= Len(s) THEN e ELSE 0

\* r'<[^>]*id="([^"]+)"' tried at p: where id=" starts (the last one the greedy
\* [^>]* reaches), 0 if none
IdAttributeAt(s, p) ==
    IF ~At(s, p, <<"<">>) THEN 0
    ELSE LET js == {j \in (p + 1)..RunNotIn(s, p + 1, GtChar) : IdValueEnd(s, j) # 0}
         IN  IF js = {} THEN 0 ELSE Max(js)

\* re.findall(r'<[^>]*id="([^"]+)"', svg_content), from position i on
RECURSIVE FindIdsFrom(_, _)
FindIdsFrom(s, i) ==
    LET starts == {p \in i..Len(s) : IdAttributeAt(s, p) # 0}
    IN  IF starts = {} THEN <<>>
        ELSE LET j == IdAttributeAt(s, Min(starts))
                 e == IdValueEnd(s, j)
             IN  <<SubSeq(s, j + 4, e - 1)>> \o FindIdsFrom(s, e + 1)

\* the loop of lines 315-317 left at the first reference without a definition
RECURSIVE ReferenceIssues_first_only(_, _)
ReferenceIssues_first_only(gradient_references, gradient_definitions_found) ==
    IF gradient_references = <<>> THEN <<>>
    ELSE IF Head(gradient_references) \notin Range(gradient_definitions_found)
    THEN <<LacksDefinition(Head(gradient_references))>>
    ELSE ReferenceIssues_first_only(Tail(gradient_references), gradient_definitions_found)

\* the loop of lines 315-317
RECURSIVE ReferenceIssues(_, _)
ReferenceIssues(gradient_references, gradient_definitions_found) ==
    IF gradient_references = <<>> THEN <<>>
    ELSE (IF Head(gradient_references) \notin Range(gradient_definitions_found)
          THEN <<LacksDefinition(Head(gradient_references))>> ELSE <<>>)
           \o ReferenceIssues(Tail(gradient_references), gradient_definitions_found)

validate_svg(s) ==
    LET validation_issues ==
            RootIssues(s)
              \o DefsIssues(s)
              \o ReferenceIssues(FindReferencesFrom(s, 1), FindIdsFrom(s, 1))
    IN  [valid |-> Len(validation_issues) = 0, errors |-> validation_issues]

----------------------------------------------------------------------------
(* Documents: a root tag, child elements, optionally definitions blocks.   *)

RootOpen == <<"<","s","v","g"," ","x","m","l","n","s","=","\"","h","t","t","p",":","/","/","w","w","w",".","w","3",".","o","r","g","/","2","0","0","0","/","s","v","g","\"",">">>
RootClose == <<"<","/","s","v","g",">">>

\* the three children of INPUT_SVG (lines 27-29), without their geometry
HeroRect == <<"<","r","e","c","t"," ","i","d","=","\"","h","e","r","o","\""," ","f","i","l","l","=","\"","r","e","d","\"","/",">">>
GreenCircle == <<"<","c","i","r","c","l","e"," ","f","i","l","l","=","\"","g","r","e","e","n","\"","/",">">>
SmallBox == <<"<","r","e","c","t"," ","f","i","l","l","=","\"","b","l","u","e","\""," ","c","l","a","s","s","=","\"","s","m","a","l","l","-","b","o","x","\"","/",">">>
\* the same kinds of element with the attributes in another order, without a
\* fill, or filled with a gradient defined earlier
HeroRectFillFirst == <<"<","r","e","c","t"," ","f","i","l","l","=","\"","r","e","d","\""," ","i","d","=","\"","h","e","r","o","\"","/",">">>
BoxCircle == <<"<","c","i","r","c","l","e"," ","c","l","a","s","s","=","\"","s","m","a","l","l","-","b","o","x","\""," ","f","i","l","l","=","\"","u","r","l","(","#","o","l","d",")","\"","/",">">>
BareCircle == <<"<","c","i","r","c","l","e"," ","i","d","=","\"","c","1","\"","/",">">>

Elements == {HeroRect, GreenCircle, SmallBox, HeroRectFillFirst, BoxCircle, BareCircle}

\* a definitions block written by an earlier edit of the document
OldGradient == <<"<","l","i","n","e","a","r","G","r","a","d","i","e","n","t"," ","i","d","=","\"","o","l","d","\"",">","<","s","t","o","p"," ","o","f","f","s","e","t","=","\"","0","%","\"","/",">","<","/","l","i","n","e","a","r","G","r","a","d","i","e","n","t",">">>
OldDefs == DefsOpen \o OldGradient \o DefsClose
OtherDefs == DefsOpen \o <<"<","r","a","d","i","a","l","G","r","a","d","i","e","n","t"," ","i","d","=","\"","o","t","h","e","r","\"",">","<","/","r","a","d","i","a","l","G","r","a","d","i","e","n","t",">">> \o DefsClose

\* what stands between the root tag and the children, and after the children
DefsLayouts == { <<<<>>, <<>>>>, <<OldDefs, <<>>>>, <<OldDefs, OtherDefs>> }

Document(layout, children) ==
    RootOpen \o layout[1] \o Concat(children) \o layout[2] \o RootClose

Documents ==
    {Document(layout, children) :
        layout \in DefsLayouts, children \in SeqsUpTo(Elements, MaxElems)}

----------------------------------------------------------------------------
(* Specifications handed to apply_gradients by a caller or by the language *)
(* model path of parse_instruction (lines 94-100), which returns the JSON  *)
(* it is given.                                                            *)

Target(selector) == [selector |-> selector, description |-> <<"e","l","e","m","e","n","t">>]
Stops(c1, c2) == <<[offset |-> 0, color |-> c1], [offset |-> 100, color |-> c2]>>
Gradient(type, direction, stops) == [type |-> type, direction |-> direction, stops |-> stops]
Step(targets, gradient) == [targets |-> targets, gradient |-> gradient]

RedToBlue == Gradient("linear", "horizontal", Stops(<<"#","f","f","0","0","0","0">>, <<"#","0","0","0","0","f","f">>))
RedToWhiteRadial == Gradient("radial", "horizontal", Stops(<<"r","e","d">>, <<"W","h","i","t","e">>))
VerticalGreen == Gradient("linear", "vertical", Stops(<<"#","0","0","f","f","0","0">>, <<"#","1","2","3","4","5","6">>))
NoStops == Gradient("linear", "diagonal", <<>>)

Specifications ==
    { [steps |-> <<>>],
      [steps |-> <<Step(<<Target(<<"#","h","e","r","o">>)>>, RedToBlue)>>],
      [steps |-> <<Step(<<Target(<<"c","i","r","c","l","e">>), Target(<<".","s","m","a","l","l","-","b","o","x">>)>>, RedToWhiteRadial)>>],
      [steps |-> <<Step(<<Target(<<"r","e","c","t">>)>>, VerticalGreen),
                   Step(<<Target(<<"#","h","e","r","o">>)>>, RedToBlue)>>],
      [steps |-> <<Step(<<Target(<<"#","h","e","r","o">>)>>, NoStops)>>],
      [steps |-> <<Step(<<Target(<<"c","i","r","c","l","e">>), Target(<<"r","e","c","t">>)>>, RedToBlue),
                   Step(<<Target(<<".","s","m","a","l","l","-","b","o","x">>)>>, RedToWhiteRadial)>>] }

----------------------------------------------------------------------------
(* apply_gradients, one action per part of the call.                       *)

\* lines 212-213, in a call with the document and the specification at hand
ApplyBegin ==
    /\ pc \in {"ready", "parsed"}
    /\ pc' = "loop"
    /\ input_svg' = svg_content
    /\ gradient_definitions' = <<>>
    /\ gradient_counter' = 1
    /\ step_index' = 0
    /\ calls' = calls + 1
    /\ UNCHANGED <<color_str, hex_color, words, target, configuration, svg_content,
                   validation>>

\* one pass of the loop over configuration["steps"] (lines 215-265)
ApplyStep ==
    /\ pc = "loop"
    /\ step_index < Len(configuration.steps)
    /\ LET step == configuration.steps[step_index + 1]
           gradient_id == GradientId(gradient_counter)
       IN  /\ gradient_definitions' =
                 Append(gradient_definitions, GradientDef(gradient_id, step.gradient))
           /\ svg_content' = ApplyToTargets(svg_content, step.targets, gradient_id)
           /\ gradient_counter' = NextCounter(gradient_counter, step)
    /\ step_index' = step_index + 1
    /\ UNCHANGED <<pc, color_str, hex_color, words, target, configuration, input_svg,
                   validation, calls>>

\* lines 267-276
ApplyFinish ==
    /\ pc = "loop"
    /\ step_index = Len(configuration.steps)
    /\ svg_content' = PlaceDefinitions(svg_content, gradient_definitions)
    /\ pc' = "done"
    /\ UNCHANGED <<color_str, hex_color, words, target, configuration, input_svg,
                   gradient_definitions, gradient_counter, step_index, validation, calls>>

\* lines 212-213, in a further call on the document the last call returned
ApplyAgain ==
    /\ pc = "done"
    /\ calls < MaxCalls
    /\ pc' = "loop"
    /\ input_svg' = svg_content
    /\ gradient_definitions' = <<>>
    /\ gradient_counter' = 1
    /\ step_index' = 0
    /\ calls' = calls + 1
    /\ UNCHANGED <<color_str, hex_color, words, target, configuration, svg_content,
                   validation>>

InitApply ==
    /\ pc = "ready"
    /\ svg_content \in Documents
    /\ configuration \in Specifications
    /\ input_svg = <<>>
    /\ gradient_definitions = <<>>
    /\ gradient_counter = 0
    /\ step_index = 0
    /\ color_str = <<>>
    /\ hex_color = None
    /\ words = <<>>
    /\ target = NoTarget
    /\ validation = NoReport
    /\ calls = 0

NextApply == ApplyBegin \/ ApplyAgain \/ ApplyStep \/ ApplyFinish

SpecApply == InitApply /\ [][NextApply]_vars

----------------------------------------------------------------------------
(* validate_svg run on texts made of tags.                                 *)

Tags ==
    { <<"<","s","v","g",">">>, DefsOpen, DefsClose, <<"<","l","i","n","e","a","r","G","r","a","d","i","e","n","t"," ","i","d","=","\"","g","r","a","d","X","\"","/",">">>,
      <<"<","r","e","c","t"," ","f","i","l","l","=","\"","u","r","l","(","#","g","r","a","d","X",")","\"","/",">">>, <<"<","c","i","r","c","l","e"," ","i","d","=","\"","c","1","\""," ","f","i","l","l","=","\"","u","r","l","(","#","g","r","a","d","Y",")","\"","/",">">> }

InitValidate ==
    /\ pc = "document"
    /\ svg_content \in {Concat(tags) : tags \in SeqsUpTo(Tags, MaxTokens)}
    /\ input_svg = <<>>
    /\ configuration = NoConfiguration
    /\ gradient_definitions = <<>>
    /\ gradient_counter = 0
    /\ step_index = 0
    /\ color_str = <<>>
    /\ hex_color = None
    /\ words = <<>>
    /\ target = NoTarget
    /\ validation = NoReport
    /\ calls = 0

\* validation_results = checker_agent.validate_svg(modified_svg)
ValidateSvg ==
    /\ pc \in {"document", "done"}
    /\ validation' = validate_svg(svg_content)
    /\ pc' = "validated"
    /\ UNCHANGED <<color_str, hex_color, words, target, configuration, input_svg,
                   svg_content, gradient_definitions, gradient_counter, step_index, calls>>

NextValidate == ValidateSvg

SpecValidate == InitValidate /\ [][NextValidate]_vars

----------------------------------------------------------------------------
(* Reading a document tag by tag, for the statements below.                *)

\* number of occurrences of lit in s
CountOf(s, lit) == Cardinality({i \in 1..Len(s) : At(s, i, lit)})

\* the elements of a finite set of numbers in increasing order
RECURSIVE Ascending(_)
Ascending(S) ==
    IF S = {} THEN <<>> ELSE <<Min(S)>> \o Ascending(S \ {Min(S)})

\* the start-tags of the shapes (<rect ...>, <circle ...>) of a document, in order
ShapeStarts(s) == {i \in 1..Len(s) : At(s, i, <<"<","r","e","c","t">>) \/ At(s, i, <<"<","c","i","r","c","l","e">>)}
ShapeTags(s) ==
    LET starts == Ascending(ShapeStarts(s))
    IN  [n \in 1..Len(starts) |-> SubSeq(s, starts[n], RunNotIn(s, starts[n], GtChar))]

\* the value of attribute name in a start-tag, None if it has none
AttributeOf(tag, name) ==
    LET open == <<" ">> \o name \o <<"=","\"">>
        a == FindFrom(tag, open, 1)
    IN  IF a = 0 THEN None
        ELSE SubSeq(tag, a + Len(open), RunNotIn(tag, a + Len(open), QuoteChar) - 1)

UrlOf(gradient_id) == <<"u","r","l","(","#">> \o gradient_id \o <<")">>

\* the shapes that carry id="hero" and a fill attribute
HeroShapes(s) ==
    {n \in DOMAIN ShapeTags(s) :
        /\ AttributeOf(ShapeTags(s)[n], <<"i","d">>) = <<"h","e","r","o">>
        /\ AttributeOf(ShapeTags(s)[n], <<"f","i","l","l">>) # None}

OnlyTargetsHero(config) ==
    /\ Len(config.steps) = 1
    /\ Len(config.steps[1].targets) = 1
    /\ config.steps[1].targets[1].selector = <<"#","h","e","r","o">>

\* the fills of the shapes after the call are those before it, except that the
\* shapes in the set changed are filled with the gradient
FillsChangedExactly(before, after, changed, gradient_id) ==
    /\ Len(ShapeTags(after)) = Len(ShapeTags(before))
    /\ \A n \in DOMAIN ShapeTags(before) :
          AttributeOf(ShapeTags(after)[n], <<"f","i","l","l">>) =
             IF n \in changed THEN UrlOf(gradient_id)
             ELSE AttributeOf(ShapeTags(before)[n], <<"f","i","l","l">>)

\* C1: with exactly one shape carrying id="hero" and a fill, whatever the order
\* of its attributes, a single step targeting #hero sets that fill to url(#grad1)
\* and leaves every other fill as it was.
C1_HeroFillAnyOrder ==
    (pc = "done" /\ OnlyTargetsHero(configuration) /\ Cardinality(HeroShapes(input_svg)) = 1)
       => FillsChangedExactly(input_svg, svg_content, HeroShapes(input_svg), GradientId(1))

\* the same statement for the documents whose hero shape has id before fill
C1_HeroFillIdFirst ==
    (pc = "done" /\ OnlyTargetsHero(configuration) /\ Cardinality(HeroShapes(input_svg)) = 1
       /\ ~Contains(input_svg, HeroRectFillFirst))
       => FillsChangedExactly(input_svg, svg_content, HeroShapes(input_svg), GradientId(1))

\* the text between the first <defs> and the first </defs> after it
DefsContent(s) ==
    LET a == FindFrom(s, DefsOpen, 1)
        b == FindFrom(s, DefsClose, a + Len(DefsOpen))
    IN  SubSeq(s, a + Len(DefsOpen), b - 1)

\* the document holds exactly one <defs>...</defs> block
OneDefsBlock(s) ==
    /\ CountOf(s, DefsOpen) = 1
    /\ CountOf(s, DefsClose) = 1
    /\ FindFrom(s, DefsOpen, 1) < FindFrom(s, DefsClose, 1)

\* C3: a one-step specification applied to a document that holds a definitions
\* block yields a document with a single definitions block, whose content is
\* exactly the fragment synthesized for the step; the old definitions are gone.
C3_DefsReplaced ==
    (pc = "done" /\ Len(configuration.steps) = 1 /\ OneDefsBlock(input_svg))
       => /\ OneDefsBlock(svg_content)
          /\ DefsContent(svg_content) =
                GradientDef(GradientId(1), configuration.steps[1].gradient)
          /\ (DefsContent(input_svg) = OldGradient => ~Contains(svg_content, OldGradient))

\* the block written by an earlier edit has been replaced by the new fragment
C3_Witness ==
    /\ pc = "done"
    /\ calls = 1
    /\ Len(configuration.steps) = 1
    /\ OneDefsBlock(input_svg)
    /\ DefsContent(input_svg) = OldGradient
    /\ Contains(svg_content, <<"<","d","e","f","s",">","<","r","a","d","i","a","l","G","r","a","d","i","e","n","t"," ","i","d","=","\"","g","r","a","d","1","\"">>)

\* the values of the fill attributes of a document, in order
FillValues(s) ==
    LET starts == Ascending({k \in 1..Len(s) : FillClose(s, k) # 0})
    IN  [n \in 1..Len(starts) |->
            SubSeq(s, starts[n] + Len(FillOpen), FillClose(s, starts[n]) - 1)]

\* the id attribute of a synthesized fragment
FragmentId(fragment) == Head(FindIdsFrom(fragment, 1))

\* the counter is 1 when a call starts, is one more than the number of steps
\* done, and the k-th fragment carries the id grad<k>
CounterFollowsSteps ==
    pc \in {"loop", "done"} =>
        /\ gradient_counter = step_index + 1
        /\ Len(gradient_definitions) = step_index
        /\ \A k \in DOMAIN gradient_definitions :
              FragmentId(gradient_definitions[k]) = <<"g","r","a","d">> \o IntToStr(k)

\* every fill that a step changes is set to the id of that step
StepPatchesWithItsId ==
    (pc = "loop" /\ step_index' = step_index + 1) =>
        /\ Len(FillValues(svg_content')) = Len(FillValues(svg_content))
        /\ \A n \in DOMAIN FillValues(svg_content) :
              FillValues(svg_content')[n] # FillValues(svg_content)[n]
                 => FillValues(svg_content')[n] = UrlOf(<<"g","r","a","d">> \o IntToStr(step_index'))

\* C4: in one call the k-th step gets the id grad<k>: the counter advances once
\* for each step however many targets the step has, all targets of a step are
\* patched with the id of the step, and every call starts again at grad1.
C4_IdsInStepOrder == [](CounterFollowsSteps) /\ [][StepPatchesWithItsId]_vars

\* a second call has run two steps, the first with two targets that both matched
C4_Witness ==
    /\ pc = "done"
    /\ calls = 2
    /\ Len(configuration.steps) = 2
    /\ Len(configuration.steps[1].targets) = 2
    /\ gradient_counter = 3
    /\ Contains(svg_content, <<"<","c","i","r","c","l","e"," ","f","i","l","l","=","\"","u","r","l","(","#","g","r","a","d","1",")","\"","/",">">>)
    /\ Contains(svg_content, <<"<","r","e","c","t"," ","i","d","=","\"","h","e","r","o","\""," ","f","i","l","l","=","\"","u","r","l","(","#","g","r","a","d","1",")","\"","/",">">>)
    /\ Contains(svg_content, <<"<","r","a","d","i","a","l","G","r","a","d","i","e","n","t"," ","i","d","=","\"","g","r","a","d","2","\"">>)

\* C8: a gradient without stops is refused: the call does not return a document
\* that holds a definition without stops for it.
C8_ZeroStopsRefused ==
    ~(/\ pc = "done"
      /\ \E k \in DOMAIN configuration.steps :
            /\ configuration.steps[k].gradient.stops = <<>>
            /\ Contains(svg_content,
                        GradientOpen(GradientId(k), configuration.steps[k].gradient)
                          \o GradientClose(configuration.steps[k].gradient)))

----------------------------------------------------------------------------
(* Which steps select a shape, and which of them ends up filling it.       *)

\* the selector selects the start-tag: #name by its id, .name by a class value
\* that contains name, a tag name by the beginning of the start-tag
SelectorMatches(tag, selector) ==
    IF At(selector, 1, <<"#">>)
    THEN AttributeOf(tag, <<"i","d">>) = Tail(selector)
    ELSE IF At(selector, 1, <<".">>)
    THEN /\ AttributeOf(tag, <<"c","l","a","s","s">>) # None
         /\ Contains(AttributeOf(tag, <<"c","l","a","s","s">>), Tail(selector))
    ELSE At(tag, 1, <<"<">> \o selector)

\* the steps of the specification with a target that selects the start-tag
MatchingSteps(tag, config) ==
    {k \in DOMAIN config.steps :
        \E t \in DOMAIN config.steps[k].targets :
            SelectorMatches(tag, config.steps[k].targets[t].selector)}

\* the selecting attribute is written before the fill in the start-tag
WrittenBeforeFill(tag, name) ==
    /\ AttributeOf(tag, name) # None
    /\ FindFrom(tag, <<" ">> \o name \o <<"=","\"">>, 1) < FindFrom(tag, <<" ","f","i","l","l","=","\"">>, 1)

\* the steps that select the start-tag by its tag name, or by an id or a class
\* written before its fill
MatchingStepsSelectorFirst(tag, config) ==
    {k \in MatchingSteps(tag, config) :
        \E t \in DOMAIN config.steps[k].targets :
            LET selector == config.steps[k].targets[t].selector
            IN  /\ SelectorMatches(tag, selector)
                /\ At(selector, 1, <<"#">>) => WrittenBeforeFill(tag, <<"i","d">>)
                /\ At(selector, 1, <<".">>) => WrittenBeforeFill(tag, <<"c","l","a","s","s">>)}

\* C11: steps are applied in the order of the specification and a later step
\* overwrites an earlier one: a shape with a fill that is selected by steps i
\* and j, i < j, ends with fill url(#grad<j>), and a shape selected by exactly
\* one step k ends with fill url(#grad<k>).
C11_LaterStepWins ==
    pc = "done"
       => /\ Len(ShapeTags(svg_content)) = Len(ShapeTags(input_svg))
          /\ \A n \in DOMAIN ShapeTags(input_svg) :
                LET tag == ShapeTags(input_svg)[n]
                    ks == MatchingSteps(tag, configuration)
                IN  (AttributeOf(tag, <<"f","i","l","l">>) # None /\ ks # {})
                       => AttributeOf(ShapeTags(svg_content)[n], <<"f","i","l","l">>) =
                             UrlOf(GradientId(Max(ks)))

\* the same statement, counting only the steps whose selecting attribute stands
\* before the fill: the last of them fills the shape, and a shape with no such
\* step keeps its fill
C11_LaterStepWinsSelectorFirst ==
    pc = "done"
       => /\ Len(ShapeTags(svg_content)) = Len(ShapeTags(input_svg))
          /\ \A n \in DOMAIN ShapeTags(input_svg) :
                LET tag == ShapeTags(input_svg)[n]
                    ks == MatchingStepsSelectorFirst(tag, configuration)
                IN  AttributeOf(ShapeTags(svg_content)[n], <<"f","i","l","l">>) =
                       IF AttributeOf(tag, <<"f","i","l","l">>) # None /\ ks # {}
                       THEN UrlOf(GradientId(Max(ks)))
                       ELSE AttributeOf(tag, <<"f","i","l","l">>)

\* a rect selected by its tag name in the first step and by its id in the
\* second one is filled by the second
C11_OverwriteSeen ==
    /\ pc = "done"
    /\ calls = 1
    /\ Len(configuration.steps) = 2
    /\ \E n \in DOMAIN ShapeTags(input_svg) :
          /\ MatchingStepsSelectorFirst(ShapeTags(input_svg)[n], configuration) = {1, 2}
          /\ AttributeOf(ShapeTags(svg_content)[n], <<"f","i","l","l">>) = UrlOf(GradientId(2))
----------------------------------------------------------------------------
(* Statements about validate_svg.                                          *)

\* the errors of a report that mention the reference
ErrorsMentioning(report, reference) ==
    {n \in DOMAIN report.errors :
        Contains(report.errors[n], <<"'">> \o reference \o <<"'">>)}

\* the errors of a report that come from the reference check
ReferenceErrors(report) ==
    {n \in DOMAIN report.errors : At(report.errors[n], 1, <<"G","r","a","d","i","e","n","t"," ","r","e","f","e","r","e","n","c","e"," ","'">>)}

\* number of fills that refer to the gradient, and whether an element carries the id
FillReferences(s, reference) == CountOf(s, <<"f","i","l","l","=","\"">> \o UrlOf(reference) \o <<"\"">>)
HasElementWithId(s, id) == Contains(s, <<" ","i","d","=","\"">> \o id \o <<"\"">>)

ReferenceNames == { <<"g","r","a","d","X">>, <<"g","r","a","d","Y">>, <<"o","l","d">>, <<"g","r","a","d","1">> }

\* C5: a reference without a definition gives one error naming it for each fill
\* that uses it (exactly one for a single fill), a reference with a definition
\* gives none, and the reference check gives no other error.
C5_OneErrorPerDanglingReference ==
    pc = "validated" =>
        /\ \A r \in ReferenceNames :
              Cardinality(ErrorsMentioning(validation, r)) =
                 IF HasElementWithId(svg_content, r) THEN 0
                 ELSE FillReferences(svg_content, r)
        /\ ReferenceErrors(validation) =
              UNION {ErrorsMentioning(validation, r) : r \in ReferenceNames}

\* two fills use gradX, nothing defines it, and gradY is used without definition too
C5_Witness ==
    /\ pc = "validated"
    /\ FillReferences(svg_content, <<"g","r","a","d","X">>) = 2
    /\ ~HasElementWithId(svg_content, <<"g","r","a","d","X">>)
    /\ Cardinality(ErrorsMentioning(validation, <<"g","r","a","d","X">>)) = 2
    /\ Cardinality(ErrorsMentioning(validation, <<"g","r","a","d","Y">>)) = 1

\* 1-based position of the first occurrence of lit in s, 0 if none
FirstAt(s, lit) == FindFrom(s, lit, 1)

\* the ">" that ends the root tag
RootBracket(s) ==
    IF FirstAt(s, <<"<","s","v","g">>) = 0 THEN 0 ELSE FindFrom(s, <<">">>, FirstAt(s, <<"<","s","v","g">>))

\* C6: the checks do not short-circuit: when the open marker of the definitions
\* exists, its close marker does not come strictly after it and it starts before
\* the end of the root tag's opening bracket, both errors are reported.
C6_BothDefsErrors ==
    (/\ pc = "validated"
     /\ Contains(svg_content, DefsOpen)
     /\ FirstAt(svg_content, DefsClose) <= FirstAt(svg_content, DefsOpen)
     /\ RootBracket(svg_content) # 0
     /\ FirstAt(svg_content, DefsOpen) < RootBracket(svg_content))
       => /\ DefsMalformed \in Range(validation.errors)
          /\ DefsBeforeRoot \in Range(validation.errors)

\* the checks of different kinds are independent: a missing root, a malformed
\* definitions block and a dangling reference are all reported together
C6_ChecksOfDifferentKinds ==
    pc = "validated" =>
        /\ ~RootMatch(svg_content) => MissingRoot \in Range(validation.errors)
        /\ (Contains(svg_content, DefsOpen)
              /\ FirstAt(svg_content, DefsClose) <= FirstAt(svg_content, DefsOpen))
             => DefsMalformed \in Range(validation.errors)

----------------------------------------------------------------------------
(* The pipeline of main(): parse, apply, validate.                         *)

\* a circle filled by reference to an element outside any definitions block
SelfFilled == <<"<","c","i","r","c","l","e"," ","f","i","l","l","=","\"","u","r","l","(","#","c","1",")","\"","/",">">>

PipelineDocuments ==
    {Document(layout, children) :
        layout \in DefsLayouts,
        children \in SeqsUpTo(Elements \cup {SelfFilled}, MaxElems)}

PipelineInstructions ==
    { <<>>,
      <<<<"m","a","k","e">>, <<"i","t">>, <<"n","i","c","e">>>>,
      <<<<"g","i","v","e"," ","t","h","e"," ","e","l","e","m","e","n","t"," ","w","i","t","h"," ","i","d"," ","'","h","e","r","o","'"," ","a"," ","r","a","d","i","a","l"," ","g","r","a","d","i","e","n","t"," ","f","r","o","m"," ","r","e","d"," ","t","o"," ","w","h","i","t","e">>>>,
      \* the example instruction of line 376
      <<<<"A","p","p","l","y"," ","a"," ","d","i","a","g","o","n","a","l"," ","g","r","a","d","i","e","n","t"," ","f","r","o","m"," ","#","1","2","3","4","5","6"," ","t","o"," ","#","a","b","c","d","e","f"," ","t","o"," ","a","l","l"," ","c","i","r","c","l","e","s">>, <<"a","n","d">>,
        <<"g","i","v","e"," ","t","h","e"," ","e","l","e","m","e","n","t"," ","w","i","t","h"," ","i","d"," ","'","h","e","r","o","'"," ","a"," ","r","a","d","i","a","l"," ","g","r","a","d","i","e","n","t"," ","f","r","o","m"," ","r","e","d"," ","t","o"," ","w","h","i","t","e">>>>,
      <<<<"c","l","a","s","s"," ","s","m","a","l","l","-","b","o","x"," ","v","e","r","t","i","c","a","l"," ","g","o","l","d">>>>,
      <<<<"a","l","l"," ","c","i","r","c","l","e","s">>, <<",">>, <<"a","l","l"," ","r","e","c","t","a","n","g","l","e","s">>, <<"t","h","e","n">>, <<"c","l","a","s","s"," ","s","m","a","l","l","-","b","o","x">>>> }

Init ==
    /\ pc = "instruction"
    /\ words \in PipelineInstructions
    /\ svg_content \in PipelineDocuments
    /\ configuration = NoConfiguration
    /\ input_svg = <<>>
    /\ gradient_definitions = <<>>
    /\ gradient_counter = 0
    /\ step_index = 0
    /\ color_str = <<>>
    /\ hex_color = None
    /\ target = NoTarget
    /\ validation = NoReport
    /\ calls = 0

Next == ParseInstruction \/ ApplyBegin \/ ApplyStep \/ ApplyFinish \/ ValidateSvg

Spec == Init /\ [][Next]_vars

\* the document stays valid when its definitions blocks are emptied: none of its
\* references relies on a definition held in such a block
ValidWithoutDefs(s) == validate_svg(ReplaceDefsFrom(s, 1, DefsOpen \o DefsClose)).valid

\* C10 as stated: the output of apply on a valid document is valid.
C10_ApplyPreservesValidity ==
    (pc = "validated" /\ validate_svg(input_svg).valid) => validation.valid

\* C10 amended: on a valid document every reference that apply writes resolves in
\* the output, and the output is valid when no reference of the input relies on
\* a definition held in the definitions block that apply replaces.
C10_ValidityUnlessOldDefsUsed ==
    (pc = "validated" /\ validate_svg(input_svg).valid)
       => /\ \A k \in 1..Len(configuration.steps) :
                ErrorsMentioning(validation, GradientId(k)) = {}
          /\ ValidWithoutDefs(input_svg) => validation.valid

\* a valid document without definitions block got two gradients, and is valid
C10_Witness ==
    /\ pc = "validated"
    /\ validate_svg(input_svg).valid
    /\ ~Contains(input_svg, DefsOpen)
    /\ Len(configuration.steps) = 2
    /\ Contains(svg_content, <<"<","r","e","c","t"," ","i","d","=","\"","h","e","r","o","\""," ","f","i","l","l","=","\"","u","r","l","(","#","g","r","a","d","2",")","\"","/",">">>)
    /\ Contains(svg_content, <<"<","c","i","r","c","l","e"," ","f","i","l","l","=","\"","u","r","l","(","#","g","r","a","d","1",")","\"","/",">">>)
    /\ validation.valid

=============================================================================
